---- MODULE Spec2Model ----
(***************************************************************************)
(* kuma-uptime-beacon: the StatusMonitor engine of src/beacon.py.          *)
(*                                                                         *)
(* The model has the object's fields (name_to_id, heartbeat_data,          *)
(* _stop_event, _thread, services), the module-level flag `stop`, the      *)
(* calls made on the GPIO backend, the background polling threads and the  *)
(* calling threads, each with its position in the method it executes.      *)
(* Python dicts are functions with a finite domain of strings; a missing   *)
(* key is a string outside the DOMAIN.                                     *)
(***************************************************************************)
EXTENDS Integers, Sequences, FiniteSets, TLC

VARIABLES
    name_to_id,      \* self.name_to_id: name -> id
    heartbeat_data,  \* self.heartbeat_data: the last heartbeat payload stored
    heartbeat_type,  \* type(self.heartbeat_data): "dict", or "list" for a JSON array
    stop_event,      \* self._stop_event.is_set()
    _thread,         \* self._thread: None or the id of a Thread object
    services,        \* self.services: the configured bindings
    pin_mode,        \* the pin_mode argument of the constructor
    stop,            \* the module-level flag set by handle_sigterm
    gpio_mode,       \* the argument of the last GPIO.setmode call
    pin_setup,       \* pins GPIO.setup was called for
    pins,            \* pin -> level of the last GPIO.output call on it
    gpio_cleaned,    \* GPIO.cleanup was called
    tpc,             \* Thread object -> position in _run_periodic
    status_dict,     \* Thread object -> its local status_dict
    exc,             \* Thread object -> the exception its except clause handles
    callers,         \* the calling threads
    cpc,             \* calling thread -> position in the method it executes
    ug_i,            \* calling thread -> index of update_gpio's for loop
    fsp,             \* calling thread -> locals of fetch_status_page (data, mapping)
    stopSlept,       \* Thread object -> slices slept with the stop event set
    lastLifecycle,   \* calling thread -> how its last start or stop call ended
    lastRefresh,     \* calling thread -> how its last fetch_status_page call ended
    lastApply,       \* calling thread -> how its last update_gpio call ended
    everStopped,     \* a stop_periodic_check call returned without joining
    pinLog,          \* the GPIO.output calls of the latest update_gpio pass
    q                \* the last is_up call of the evaluator harness

vars == <<name_to_id, heartbeat_data, stop_event, _thread, services, pin_mode,
          stop, gpio_mode, pin_setup, pins, gpio_cleaned, tpc, status_dict,
          exc, callers, cpc, ug_i, lastLifecycle, lastRefresh, lastApply,
          everStopped, pinLog, q, heartbeat_type, fsp, stopSlept>>

(***************************************************************************)
(* Bounds of the model.                                                    *)
(***************************************************************************)
MaxThreads == 2      \* Thread objects created by start_periodic_check
MaxEntries == 2      \* entries per monitor in the evaluator harness
NumConfigs == 5      \* service configurations tried
NumRegistries == 3   \* registry responses tried
NumHeartbeats == 3   \* heartbeat responses tried
SleepSlices == 2     \* the interval of time.sleep, in slices of time

Tids == 1..MaxThreads

(***************************************************************************)
(* Python values.                                                          *)
(***************************************************************************)
None == -1

EmptyDict == [x \in {} |-> 0]

\* d.get(k, def)
DictGet(d, k, def) == IF k \in DOMAIN d THEN d[k] ELSE def

\* d[k] = v
\* A plausible slip: an existing key keeps its value (dict.setdefault).
DictPut_keepFirst(d, k, v) ==
    [x \in (DOMAIN d) \cup {k} |-> IF x \in DOMAIN d THEN d[x] ELSE v]

DictPut(d, k, v) == [x \in (DOMAIN d) \cup {k} |-> IF x = k THEN v ELSE d[x]]

\* bool(v) of an id: None and 0 are false
Truthy(v) == v # None /\ v # 0

Digit(n) ==
    CASE n = 0 -> "0" [] n = 1 -> "1" [] n = 2 -> "2" [] n = 3 -> "3"
      [] n = 4 -> "4" [] n = 5 -> "5" [] n = 6 -> "6" [] n = 7 -> "7"
      [] n = 8 -> "8" [] n = 9 -> "9"

RECURSIVE str(_)
\* str(monitor_id) of an int or None
str(n) ==
    IF n = None THEN "None"
    ELSE IF n < 10 THEN Digit(n)
    ELSE str(n \div 10) \o Digit(n % 10)

\* pin_mode.upper()
upper(s) == CASE s = "bcm" -> "BCM" [] s = "board" -> "BOARD" [] OTHER -> s

(***************************************************************************)
(* StatusMonitor.is_up                                                     *)
(***************************************************************************)
\* A plausible slip: the first entry instead of the last.
is_up_first(hb, monitor_id) ==
    LET entries == DictGet(DictGet(hb, "heartbeatList", EmptyDict),
                           str(monitor_id), <<>>)
    IN  Len(entries) > 0 /\ DictGet(entries[1], "status", None) = 1

is_up(hb, monitor_id) ==
    LET entries == DictGet(DictGet(hb, "heartbeatList", EmptyDict),
                           str(monitor_id), <<>>)
    IN  Len(entries) > 0 /\ DictGet(entries[Len(entries)], "status", None) = 1

(***************************************************************************)
(* StatusMonitor.fetch_status_page: the parse of a registry response.      *)
(* The result is [ok, mapping]; ok is FALSE when a KeyError is raised.     *)
(***************************************************************************)
RECURSIVE ParseMonitors(_, _)
ParseMonitors(monitors, acc) ==
    IF ~acc.ok \/ monitors = <<>> THEN acc
    ELSE LET monitor == Head(monitors)
         IN  IF "name" \notin DOMAIN monitor \/ "id" \notin DOMAIN monitor
             THEN [ok |-> FALSE, mapping |-> acc.mapping]
             ELSE ParseMonitors(Tail(monitors),
                     [ok |-> TRUE,
                      mapping |-> DictPut(acc.mapping, monitor["name"], monitor["id"])])

RECURSIVE ParseGroups(_, _)
ParseGroups(groups, acc) ==
    IF ~acc.ok \/ groups = <<>> THEN acc
    ELSE LET group == Head(groups)
         IN  IF "name" \notin DOMAIN group \/ "id" \notin DOMAIN group
             THEN [ok |-> FALSE, mapping |-> acc.mapping]
             ELSE ParseGroups(Tail(groups),
                     ParseMonitors(DictGet(group, "monitorList", <<>>),
                        [ok |-> TRUE,
                         mapping |-> DictPut(acc.mapping, group["name"], group["id"])]))

ParseRegistry(data) ==
    ParseGroups(DictGet(data, "publicGroupList", <<>>),
                [ok |-> TRUE, mapping |-> EmptyDict])

(***************************************************************************)
(* The inputs: configurations, registry responses and heartbeat responses. *)
(***************************************************************************)
AllPins == {5, 6, 7}

\* config["services"] and config.get("pin_mode", "BCM") of configuration k
Config(k) ==
    CASE k = 1 ->
           [pin_mode |-> "BCM",
            services |-> << [name |-> "svc-x", pin |-> 5, enabled |-> TRUE],
                            [name |-> "svc-y", pin |-> 6, enabled |-> TRUE] >>]
      [] k = 2 ->
           [pin_mode |-> "bcm",
            services |-> << [name |-> "svc-z", pin |-> 5],
                            [name |-> "svc-y", pin |-> 6] >>]
      [] k = 3 ->
           [pin_mode |-> "BOARD",
            services |-> << [name |-> "svc-x", pin |-> 7],
                            [pin |-> 6],
                            [id |-> 3, pin |-> 7] >>]
      [] k = 4 ->
           [pin_mode |-> "BCM",
            services |-> << [id |-> 0, name |-> "svc-x", pin |-> 5],
                            [id |-> 3, name |-> "svc-x", pin |-> 6, enabled |-> FALSE],
                            [id |-> 12, pin |-> 6] >>]
      [] k = 5 ->
           [pin_mode |-> "BCM",
            services |-> << [name |-> "svc-x", pin |-> 7],
                            [name |-> "svc-y", pin |-> 7] >>]
      [] OTHER ->
           [pin_mode |-> "board",
            services |-> << [name |-> "groupA", pin |-> 5, enabled |-> TRUE] >>]

\* response.json() of GET /api/status-page/{slug}, response k
RegistryResponse(k) ==
    CASE k = 1 ->
           [publicGroupList |->
              << [id |-> 1, name |-> "groupA",
                  monitorList |-> << [id |-> 2, name |-> "svc-x"],
                                     [id |-> 3, name |-> "svc-y"] >>] >>]
      [] k = 2 ->
           [publicGroupList |->
              << [id |-> 1, name |-> "svc-x",
                  monitorList |-> << [id |-> 12, name |-> "svc-y"] >>],
                 [id |-> 4, name |-> "groupB",
                  monitorList |-> << [id |-> 3, name |-> "svc-x"] >>] >>]
      [] k = 3 ->
           [publicGroupList |->
              << [id |-> 1, name |-> "groupA",
                  monitorList |-> << [id |-> 3, name |-> "svc-x"] >>],
                 [id |-> 5, monitorList |-> << [id |-> 2, name |-> "svc-y"] >>] >>]
      [] OTHER -> [config |-> 0]

HbUp == [status |-> 1, time |-> 1]
HbDown == [status |-> 0, time |-> 1]
HbPending == [status |-> 2, time |-> 1]
HbNoStatus == [time |-> 1]

\* response.json() of GET /api/status-page/heartbeat/{slug}, response k
HeartbeatResponse(k) ==
    CASE k = 1 ->
           [heartbeatList |-> ("2" :> << HbUp >>) @@ ("3" :> << HbDown >>)]
      [] k = 2 ->
           [heartbeatList |-> ("2" :> << HbUp, HbDown >>) @@ ("3" :> << HbDown, HbUp >>)
                              @@ ("12" :> << HbPending, HbUp >>)]
      [] k = 3 ->
           [heartbeatList |-> ("2" :> << >>) @@ ("3" :> << HbNoStatus >>)]
      [] OTHER -> [uptimeList |-> 0]

(***************************************************************************)
(* Threads.                                                                *)
(***************************************************************************)
\* Thread.is_alive(): started and _run_periodic has not returned
is_alive(t) == tpc[t] \in {"test", "fetch", "hung", "evaluate", "except", "sleep"}

AliveThreads == {t \in Tids : is_alive(t)}

\* Thread objects created so far
\* fetch_status_page's locals outside a call: data, the groups still to be
\* iterated, mapping
NoLocals == [data |-> EmptyDict, groups |-> << >>, mapping |-> EmptyDict]

Created == {t \in Tids : tpc[t] # "unborn"}

(***************************************************************************)
(* The initial state: the constructor has assigned the fields (lines 134   *)
(* to 140) and is about to call fetch_status_page.                         *)
(***************************************************************************)
InitFields(k, hb) ==
    /\ name_to_id = EmptyDict
    /\ heartbeat_data = hb
    /\ stop_event = FALSE
    /\ _thread = None
    /\ services = Config(k).services
    /\ pin_mode = Config(k).pin_mode
    /\ stop = FALSE
    /\ gpio_mode = "unset"
    /\ pin_setup = {}
    /\ pins = [p \in AllPins |-> "UNSET"]
    /\ gpio_cleaned = FALSE
    /\ tpc = [t \in Tids |-> "unborn"]
    /\ status_dict = [t \in Tids |-> EmptyDict]
    /\ exc = [t \in Tids |-> "none"]
    /\ ug_i = [c \in callers |-> 0]
    /\ lastLifecycle = [c \in callers |-> "none"]
    /\ lastRefresh = [c \in callers |-> "none"]
    /\ lastApply = [c \in callers |-> "none"]
    /\ everStopped = FALSE
    /\ pinLog = << >>
    /\ q = [called |-> FALSE, id |-> None, result |-> FALSE]
    /\ heartbeat_type = "dict"
    /\ fsp = [c \in callers |-> NoLocals]
    /\ stopSlept = [t \in Tids |-> 0]

Init ==
    /\ callers = {1}
    /\ cpc = [c \in callers |-> "construct"]
    /\ \E k \in 1..NumConfigs : InitFields(k, EmptyDict)

(***************************************************************************)
(* StatusMonitor.__init__ and fetch_status_page                            *)
(***************************************************************************)
\* __init__ from the fetch_status_page call on, the registry responding data
Construct(c, data) ==
    /\ cpc[c] = "construct"
    /\ LET parsed == ParseRegistry(data)
       IN  IF parsed.ok
           THEN /\ name_to_id' = parsed.mapping
                /\ gpio_mode' = IF upper(pin_mode) = "BCM" THEN "BCM" ELSE "BOARD"
                /\ pin_setup' = {services[i]["pin"] : i \in 1..Len(services)}
                /\ cpc' = [cpc EXCEPT ![c] = "idle"]
           ELSE /\ cpc' = [cpc EXCEPT ![c] = "raised"]
                /\ UNCHANGED <<name_to_id, gpio_mode, pin_setup>>
    /\ UNCHANGED <<heartbeat_data, stop_event, _thread, services, pin_mode, stop,
                   pins, gpio_cleaned, tpc, status_dict, exc, callers, ug_i,
                   lastLifecycle, everStopped, pinLog, q,
                   lastRefresh, lastApply,
                   heartbeat_type, fsp, stopSlept>>

\* A plausible slip: the GPIO configuration of lines 144 to 151 placed before
\* the registry fetch of line 142.
ConstructFail_gpioFirst(c) ==
    /\ cpc[c] = "construct"
    /\ gpio_mode' = IF upper(pin_mode) = "BCM" THEN "BCM" ELSE "BOARD"
    /\ pin_setup' = {services[i]["pin"] : i \in 1..Len(services)}
    /\ cpc' = [cpc EXCEPT ![c] = "raised"]
    /\ UNCHANGED <<name_to_id, heartbeat_data, stop_event, _thread, services,
                   pin_mode, stop, pins, gpio_cleaned, tpc, status_dict, exc,
                   callers, ug_i, lastLifecycle, everStopped, pinLog, q,
                   lastRefresh, lastApply, heartbeat_type, fsp, stopSlept>>

\* __init__ when requests.get or raise_for_status raises
ConstructFail(c) ==
    /\ cpc[c] = "construct"
    /\ cpc' = [cpc EXCEPT ![c] = "raised"]
    /\ UNCHANGED <<name_to_id, heartbeat_data, stop_event, _thread, services,
                   pin_mode, stop, gpio_mode, pin_setup, pins, gpio_cleaned, tpc,
                   status_dict, exc, callers, ug_i, lastLifecycle, everStopped,
                   pinLog, q,
                   lastRefresh, lastApply,
                   heartbeat_type, fsp, stopSlept>>

\* an explicit fetch_status_page call, the registry responding data
FetchStatusPage(c, data) ==
    /\ cpc[c] = "idle"
    /\ LET parsed == ParseRegistry(data)
       IN  IF parsed.ok
           THEN /\ name_to_id' = parsed.mapping
                /\ lastRefresh' = [lastRefresh EXCEPT ![c] = "ok"]
           ELSE /\ name_to_id' = name_to_id
                /\ lastRefresh' = [lastRefresh EXCEPT ![c] = "raised"]
    /\ UNCHANGED <<heartbeat_data, stop_event, _thread, services, pin_mode, stop,
                   gpio_mode, pin_setup, pins, gpio_cleaned, tpc, status_dict,
                   exc, callers, cpc, ug_i, lastLifecycle, lastApply,
                   everStopped, pinLog, q,
                   heartbeat_type, fsp, stopSlept>>

\* an explicit fetch_status_page call when requests.get or raise_for_status raises
FetchStatusPageFail(c) ==
    /\ cpc[c] = "idle"
    /\ lastRefresh' = [lastRefresh EXCEPT ![c] = "raised"]
    /\ UNCHANGED <<name_to_id, heartbeat_data, stop_event, _thread, services,
                   pin_mode, stop, gpio_mode, pin_setup, pins, gpio_cleaned, tpc,
                   status_dict, exc, callers, cpc, ug_i, lastLifecycle,
                   lastApply, everStopped, pinLog, q,
                   heartbeat_type, fsp, stopSlept>>

\* The same call in the steps of its code.  Lines 155 to 161: the response
\* arrived and mapping = {} is created.
FspBegin(c, data) ==
    /\ cpc[c] = "idle"
    /\ cpc' = [cpc EXCEPT ![c] = "fsp_parse"]
    /\ fsp' = [fsp EXCEPT ![c] = [data |-> data,
                                  groups |-> DictGet(data, "publicGroupList", << >>),
                                  mapping |-> EmptyDict]]
    /\ UNCHANGED <<name_to_id, lastRefresh>>
    /\ UNCHANGED <<heartbeat_data, stop_event, _thread, services, pin_mode, stop,
                   gpio_mode, pin_setup, pins, gpio_cleaned, tpc, status_dict,
                   exc, callers, ug_i, lastLifecycle, lastApply, everStopped,
                   pinLog, q, heartbeat_type, stopSlept>>

\* A plausible slip: the entries written into self.name_to_id as they are
\* parsed.
FspGroup_inplace(c) ==
    /\ cpc[c] = "fsp_parse"
    /\ fsp[c].groups # << >>
    /\ LET parsed == ParseGroups(<<Head(fsp[c].groups)>>,
                                 [ok |-> TRUE, mapping |-> name_to_id])
       IN  /\ name_to_id' = parsed.mapping
           /\ IF parsed.ok
              THEN /\ fsp' = [fsp EXCEPT ![c] = [@ EXCEPT !.groups = Tail(@), !.mapping = parsed.mapping]]
                   /\ UNCHANGED <<cpc, lastRefresh>>
              ELSE /\ fsp' = [fsp EXCEPT ![c] = NoLocals]
                   /\ cpc' = [cpc EXCEPT ![c] = "idle"]
                   /\ lastRefresh' = [lastRefresh EXCEPT ![c] = "raised"]
    /\ UNCHANGED <<heartbeat_data, stop_event, _thread, services, pin_mode, stop,
                   gpio_mode, pin_setup, pins, gpio_cleaned, tpc, status_dict,
                   exc, callers, ug_i, lastLifecycle, lastApply, everStopped,
                   pinLog, q, heartbeat_type, stopSlept>>

\* lines 162 to 164: one iteration of the outer loop, a group and its
\* monitors written into the local mapping; a KeyError leaves the method
FspGroup(c) ==
    /\ cpc[c] = "fsp_parse"
    /\ fsp[c].groups # << >>
    /\ LET parsed == ParseGroups(<<Head(fsp[c].groups)>>,
                                 [ok |-> TRUE, mapping |-> fsp[c].mapping])
       IN  IF parsed.ok
           THEN /\ fsp' = [fsp EXCEPT ![c] = [@ EXCEPT !.groups = Tail(@), !.mapping = parsed.mapping]]
                /\ UNCHANGED <<cpc, lastRefresh>>
           ELSE /\ fsp' = [fsp EXCEPT ![c] = NoLocals]
                /\ cpc' = [cpc EXCEPT ![c] = "idle"]
                /\ lastRefresh' = [lastRefresh EXCEPT ![c] = "raised"]
    /\ name_to_id' = name_to_id
    /\ UNCHANGED <<heartbeat_data, stop_event, _thread, services, pin_mode, stop,
                   gpio_mode, pin_setup, pins, gpio_cleaned, tpc, status_dict,
                   exc, callers, ug_i, lastLifecycle, lastApply, everStopped,
                   pinLog, q, heartbeat_type, stopSlept>>

\* line 165: self.name_to_id = mapping
FspAssign(c) ==
    /\ cpc[c] = "fsp_parse"
    /\ fsp[c].groups = << >>
    /\ name_to_id' = fsp[c].mapping
    /\ fsp' = [fsp EXCEPT ![c] = NoLocals]
    /\ cpc' = [cpc EXCEPT ![c] = "idle"]
    /\ lastRefresh' = [lastRefresh EXCEPT ![c] = "ok"]
    /\ UNCHANGED <<heartbeat_data, stop_event, _thread, services, pin_mode, stop,
                   gpio_mode, pin_setup, pins, gpio_cleaned, tpc, status_dict,
                   exc, callers, ug_i, lastLifecycle, lastApply, everStopped,
                   pinLog, q, heartbeat_type, stopSlept>>

(***************************************************************************)
(* StatusMonitor.start_periodic_check                                      *)
(***************************************************************************)
\* A plausible slip: the liveness test left out.
AlreadyRunning_never == FALSE

\* line 185: self._thread and self._thread.is_alive()
AlreadyRunning == _thread # None /\ is_alive(_thread)

\* line 185 to 186: the test, and the return when a thread is running
StartCheck(c) ==
    /\ cpc[c] = "idle"
    /\ IF AlreadyRunning
       THEN /\ lastLifecycle' = [lastLifecycle EXCEPT ![c] = "start_noop"]
            /\ cpc' = cpc
       ELSE /\ Cardinality(Created) < MaxThreads
            /\ cpc' = [cpc EXCEPT ![c] = "start_clear"]
            /\ lastLifecycle' = lastLifecycle
    /\ UNCHANGED <<name_to_id, heartbeat_data, stop_event, _thread, services,
                   pin_mode, stop, gpio_mode, pin_setup, pins, gpio_cleaned, tpc,
                   status_dict, exc, callers, ug_i, everStopped, pinLog, q,
                   lastRefresh, lastApply,
                   heartbeat_type, fsp, stopSlept>>

\* A plausible slip: the stop event left as it is.
StartClear_skip(c) ==
    /\ cpc[c] = "start_clear"
    /\ cpc' = [cpc EXCEPT ![c] = "start_create"]
    /\ UNCHANGED <<name_to_id, heartbeat_data, stop_event, _thread, services,
                   pin_mode, stop, gpio_mode, pin_setup, pins, gpio_cleaned, tpc,
                   status_dict, exc, callers, ug_i, lastLifecycle, everStopped,
                   pinLog, q,
                   lastRefresh, lastApply,
                   heartbeat_type, fsp, stopSlept>>

\* line 188: self._stop_event.clear()
StartClear(c) ==
    /\ cpc[c] = "start_clear"
    /\ stop_event' = FALSE
    /\ cpc' = [cpc EXCEPT ![c] = "start_create"]
    /\ UNCHANGED <<name_to_id, heartbeat_data, _thread, services, pin_mode, stop,
                   gpio_mode, pin_setup, pins, gpio_cleaned, tpc, status_dict,
                   exc, callers, ug_i, lastLifecycle, everStopped, pinLog, q,
                   lastRefresh, lastApply,
                   heartbeat_type, fsp, stopSlept>>

\* line 189: self._thread = threading.Thread(...)
StartCreate(c) ==
    /\ cpc[c] = "start_create"
    /\ Cardinality(Created) < MaxThreads
    /\ LET t == Cardinality(Created) + 1
       IN  /\ tpc' = [tpc EXCEPT ![t] = "new"]
           /\ _thread' = t
    /\ cpc' = [cpc EXCEPT ![c] = "start_run"]
    /\ UNCHANGED <<name_to_id, heartbeat_data, stop_event, services, pin_mode,
                   stop, gpio_mode, pin_setup, pins, gpio_cleaned, status_dict,
                   exc, callers, ug_i, lastLifecycle, everStopped, pinLog, q,
                   lastRefresh, lastApply,
                   heartbeat_type, fsp, stopSlept>>

\* line 190: self._thread.start(); raises on None and on a started thread
StartRun(c) ==
    /\ cpc[c] = "start_run"
    /\ IF _thread # None /\ tpc[_thread] = "new"
       THEN /\ tpc' = [tpc EXCEPT ![_thread] = "test"]
            /\ lastLifecycle' = [lastLifecycle EXCEPT ![c] = "start"]
       ELSE /\ tpc' = tpc
            /\ lastLifecycle' = [lastLifecycle EXCEPT ![c] = "start_raised"]
    /\ cpc' = [cpc EXCEPT ![c] = "idle"]
    /\ UNCHANGED <<name_to_id, heartbeat_data, stop_event, _thread, services,
                   pin_mode, stop, gpio_mode, pin_setup, pins, gpio_cleaned,
                   status_dict, exc, callers, ug_i, everStopped, pinLog, q,
                   lastRefresh, lastApply,
                   heartbeat_type, fsp, stopSlept>>

(***************************************************************************)
(* StatusMonitor.stop_periodic_check                                       *)
(***************************************************************************)
\* line 206: self._stop_event.set()
StopSet(c) ==
    /\ cpc[c] = "idle"
    /\ stop_event' = TRUE
    /\ cpc' = [cpc EXCEPT ![c] = "stop_check"]
    /\ UNCHANGED <<name_to_id, heartbeat_data, _thread, services, pin_mode, stop,
                   gpio_mode, pin_setup, pins, gpio_cleaned, tpc, status_dict,
                   exc, callers, ug_i, lastLifecycle, everStopped, pinLog, q,
                   lastRefresh, lastApply,
                   heartbeat_type, fsp, stopSlept>>

\* line 207: if self._thread; the return when there is none
StopCheck(c) ==
    /\ cpc[c] = "stop_check"
    /\ IF _thread = None
       THEN /\ cpc' = [cpc EXCEPT ![c] = "idle"]
            /\ lastLifecycle' = [lastLifecycle EXCEPT ![c] = "stop_noop"]
            /\ everStopped' = TRUE
       ELSE /\ cpc' = [cpc EXCEPT ![c] = "stop_join"]
            /\ UNCHANGED <<lastLifecycle, everStopped>>
    /\ UNCHANGED <<name_to_id, heartbeat_data, stop_event, _thread, services,
                   pin_mode, stop, gpio_mode, pin_setup, pins, gpio_cleaned, tpc,
                   status_dict, exc, callers, ug_i, pinLog, q,
                   lastRefresh, lastApply,
                   heartbeat_type, fsp, stopSlept>>

\* A plausible slip: no join, the call goes on at once.
JoinReturns_nowait(t) == TRUE

\* line 208: Thread.join() returns once the thread is not alive
JoinReturns(t) == ~is_alive(t)

\* line 208: self._thread.join(); raises on None and on a thread not started
StopJoin(c) ==
    /\ cpc[c] = "stop_join"
    /\ IF _thread = None \/ tpc[_thread] = "new"
       THEN /\ cpc' = [cpc EXCEPT ![c] = "idle"]
            /\ lastLifecycle' = [lastLifecycle EXCEPT ![c] = "stop_raised"]
       ELSE /\ JoinReturns(_thread)
            /\ cpc' = [cpc EXCEPT ![c] = "stop_reset"]
            /\ lastLifecycle' = lastLifecycle
    /\ UNCHANGED <<name_to_id, heartbeat_data, stop_event, _thread, services,
                   pin_mode, stop, gpio_mode, pin_setup, pins, gpio_cleaned, tpc,
                   status_dict, exc, callers, ug_i, everStopped, pinLog, q,
                   lastRefresh, lastApply,
                   heartbeat_type, fsp, stopSlept>>

\* line 209: self._thread = None, and the return
StopReset(c) ==
    /\ cpc[c] = "stop_reset"
    /\ _thread' = None
    /\ cpc' = [cpc EXCEPT ![c] = "idle"]
    /\ lastLifecycle' = [lastLifecycle EXCEPT ![c] = "stop"]
    /\ UNCHANGED <<name_to_id, heartbeat_data, stop_event, services, pin_mode,
                   stop, gpio_mode, pin_setup, pins, gpio_cleaned, tpc,
                   status_dict, exc, callers, ug_i, everStopped, pinLog, q,
                   lastRefresh, lastApply,
                   heartbeat_type, fsp, stopSlept>>

(***************************************************************************)
(* StatusMonitor.update_gpio, one step per iteration of its for loop       *)
(***************************************************************************)
\* line 214: service.get("enabled", True)
Enabled(service) == DictGet(service, "enabled", TRUE)

\* src/parse_json.py, line 98: service.get("enabled", False)
EnabledParseJson(service) == DictGet(service, "enabled", FALSE)

\* line 215: service["name"] is evaluated, and raises KeyError
NameKeyError(service) ==
    ~Truthy(DictGet(service, "id", None)) /\ "name" \notin DOMAIN service

\* line 215: service.get("id") or self.name_to_id.get(service["name"])
ServiceId(service, mapping) ==
    IF Truthy(DictGet(service, "id", None))
    THEN service["id"]
    ELSE DictGet(mapping, service["name"], None)

\* lines 217 to 220: the level written to the pin
Level(hb, service_id) == IF is_up(hb, service_id) THEN "HIGH" ELSE "LOW"

\* the call, up to the for loop
UpdateGpioBegin(c) ==
    /\ cpc[c] = "idle"
    /\ cpc' = [cpc EXCEPT ![c] = "update_gpio"]
    /\ ug_i' = [ug_i EXCEPT ![c] = 1]
    /\ pinLog' = << >>
    /\ lastApply' = [lastApply EXCEPT ![c] = "running"]
    /\ UNCHANGED <<name_to_id, heartbeat_data, stop_event, _thread, services,
                   pin_mode, stop, gpio_mode, pin_setup, pins, gpio_cleaned, tpc,
                   status_dict, exc, callers, lastLifecycle, lastRefresh,
                   everStopped, q,
                   heartbeat_type, fsp, stopSlept>>

\* lines 213 to 220: one iteration
UpdateGpioStep(c) ==
    /\ cpc[c] = "update_gpio"
    /\ ug_i[c] <= Len(services)
    /\ LET i == ug_i[c]
           service == services[i]
       IN  IF ~Enabled(service)
           THEN /\ ug_i' = [ug_i EXCEPT ![c] = i + 1]
                /\ UNCHANGED <<pins, pinLog, cpc, lastApply>>
           ELSE IF NameKeyError(service)
           THEN /\ cpc' = [cpc EXCEPT ![c] = "idle"]
                /\ lastApply' = [lastApply EXCEPT ![c] = "raised"]
                /\ ug_i' = [ug_i EXCEPT ![c] = 0]
                /\ UNCHANGED <<pins, pinLog>>
           ELSE LET service_id == ServiceId(service, name_to_id)
                    pin == service["pin"]
                    level == Level(heartbeat_data, service_id)
                IN  /\ pins' = [pins EXCEPT ![pin] = level]
                    /\ pinLog' = Append(pinLog, [i |-> i, pin |-> pin,
                                                 level |-> level, id |-> service_id])
                    /\ ug_i' = [ug_i EXCEPT ![c] = i + 1]
                    /\ UNCHANGED <<cpc, lastApply>>
    /\ UNCHANGED <<name_to_id, heartbeat_data, stop_event, _thread, services,
                   pin_mode, stop, gpio_mode, pin_setup, gpio_cleaned, tpc,
                   status_dict, exc, callers, lastLifecycle, lastRefresh,
                   everStopped, q,
                   heartbeat_type, fsp, stopSlept>>

\* src/parse_json.py, lines 97 to 104: one iteration of its update_gpio
UpdateGpioStepParseJson(c) ==
    /\ cpc[c] = "update_gpio"
    /\ ug_i[c] <= Len(services)
    /\ LET i == ug_i[c]
           service == services[i]
       IN  IF ~EnabledParseJson(service)
           THEN /\ ug_i' = [ug_i EXCEPT ![c] = i + 1]
                /\ UNCHANGED <<pins, pinLog, cpc, lastApply>>
           ELSE IF NameKeyError(service)
           THEN /\ cpc' = [cpc EXCEPT ![c] = "idle"]
                /\ lastApply' = [lastApply EXCEPT ![c] = "raised"]
                /\ ug_i' = [ug_i EXCEPT ![c] = 0]
                /\ UNCHANGED <<pins, pinLog>>
           ELSE LET service_id == ServiceId(service, name_to_id)
                    pin == service["pin"]
                    level == Level(heartbeat_data, service_id)
                IN  /\ pins' = [pins EXCEPT ![pin] = level]
                    /\ pinLog' = Append(pinLog, [i |-> i, pin |-> pin,
                                                 level |-> level, id |-> service_id])
                    /\ ug_i' = [ug_i EXCEPT ![c] = i + 1]
                    /\ UNCHANGED <<cpc, lastApply>>
    /\ UNCHANGED <<name_to_id, heartbeat_data, stop_event, _thread, services,
                   pin_mode, stop, gpio_mode, pin_setup, gpio_cleaned, tpc,
                   status_dict, exc, callers, lastLifecycle, lastRefresh,
                   everStopped, q,
                   heartbeat_type, fsp, stopSlept>>

\* lines 217 to 220: GPIO.output raises for the binding of this iteration;
\* nothing in update_gpio catches it
UpdateGpioOutputFail(c) ==
    /\ cpc[c] = "update_gpio"
    /\ ug_i[c] <= Len(services)
    /\ Enabled(services[ug_i[c]])
    /\ ~NameKeyError(services[ug_i[c]])
    /\ cpc' = [cpc EXCEPT ![c] = "idle"]
    /\ lastApply' = [lastApply EXCEPT ![c] = "output_raised"]
    /\ ug_i' = [ug_i EXCEPT ![c] = 0]
    /\ UNCHANGED <<name_to_id, heartbeat_data, stop_event, _thread, services,
                   pin_mode, stop, gpio_mode, pin_setup, pins, gpio_cleaned, tpc,
                   status_dict, exc, callers, lastLifecycle, lastRefresh,
                   everStopped, pinLog, q, heartbeat_type, fsp, stopSlept>>

\* the for loop is exhausted: the return
UpdateGpioReturn(c) ==
    /\ cpc[c] = "update_gpio"
    /\ ug_i[c] > Len(services)
    /\ cpc' = [cpc EXCEPT ![c] = "idle"]
    /\ ug_i' = [ug_i EXCEPT ![c] = 0]
    /\ lastApply' = [lastApply EXCEPT ![c] = "returned"]
    /\ UNCHANGED <<name_to_id, heartbeat_data, stop_event, _thread, services,
                   pin_mode, stop, gpio_mode, pin_setup, pins, gpio_cleaned, tpc,
                   status_dict, exc, callers, lastLifecycle, lastRefresh,
                   everStopped, pinLog, q,
                   heartbeat_type, fsp, stopSlept>>

(***************************************************************************)
(* The process: handle_sigterm, run, GPIO.cleanup and the exit             *)
(***************************************************************************)
\* handle_sigterm, on SIGTERM or SIGINT
Signal ==
    /\ \E c \in callers : cpc[c] \notin {"raised", "exited"}
    /\ ~stop
    /\ stop' = TRUE
    /\ UNCHANGED <<name_to_id, heartbeat_data, stop_event, _thread, services,
                   pin_mode, gpio_mode, pin_setup, pins, gpio_cleaned, tpc,
                   status_dict, exc, callers, cpc, ug_i, lastLifecycle, everStopped,
                   pinLog, q,
                   lastRefresh, lastApply,
                   heartbeat_type, fsp, stopSlept>>

\* line 241: run() is called
RunEnter(c) ==
    /\ cpc[c] = "idle"
    /\ cpc' = [cpc EXCEPT ![c] = "run"]
    /\ UNCHANGED <<name_to_id, heartbeat_data, stop_event, _thread, services,
                   pin_mode, stop, gpio_mode, pin_setup, pins, gpio_cleaned, tpc,
                   status_dict, exc, callers, ug_i, lastLifecycle, everStopped,
                   pinLog, q,
                   lastRefresh, lastApply,
                   heartbeat_type, fsp, stopSlept>>

\* lines 39 to 42: the loop of run() ends once stop is set
RunReturn(c) ==
    /\ cpc[c] = "run"
    /\ stop
    /\ cpc' = [cpc EXCEPT ![c] = "cleanup"]
    /\ UNCHANGED <<name_to_id, heartbeat_data, stop_event, _thread, services,
                   pin_mode, stop, gpio_mode, pin_setup, pins, gpio_cleaned, tpc,
                   status_dict, exc, callers, ug_i, lastLifecycle, everStopped,
                   pinLog, q,
                   lastRefresh, lastApply,
                   heartbeat_type, fsp, stopSlept>>

\* line 275: GPIO.cleanup()
Cleanup(c) ==
    /\ cpc[c] = "cleanup"
    /\ gpio_cleaned' = TRUE
    /\ cpc' = [cpc EXCEPT ![c] = "exit"]
    /\ UNCHANGED <<name_to_id, heartbeat_data, stop_event, _thread, services,
                   pin_mode, stop, gpio_mode, pin_setup, pins, tpc, status_dict,
                   exc, callers, ug_i, lastLifecycle, everStopped, pinLog, q,
                   lastRefresh, lastApply,
                   heartbeat_type, fsp, stopSlept>>

\* the end of the script: the process exits and its daemon threads with it
Exit(c) ==
    /\ cpc[c] = "exit"
    /\ cpc' = [cpc EXCEPT ![c] = "exited"]
    /\ tpc' = [t \in Tids |-> IF is_alive(t) THEN "dead" ELSE tpc[t]]
    /\ status_dict' = [t \in Tids |-> EmptyDict]
    /\ exc' = [t \in Tids |-> "none"]
    /\ UNCHANGED <<name_to_id, heartbeat_data, stop_event, _thread, services,
                   pin_mode, stop, gpio_mode, pin_setup, pins, gpio_cleaned,
                   callers, ug_i, lastLifecycle, everStopped, pinLog, q,
                   lastRefresh, lastApply,
                   heartbeat_type, fsp, stopSlept>>

(***************************************************************************)
(* StatusMonitor._run_periodic, the background thread                      *)
(***************************************************************************)
\* line 194: while not self._stop_event.is_set()
ThreadTest(t) ==
    /\ tpc[t] = "test"
    /\ IF stop_event
       THEN /\ tpc' = [tpc EXCEPT ![t] = "dead"]
            /\ status_dict' = [status_dict EXCEPT ![t] = EmptyDict]
       ELSE /\ tpc' = [tpc EXCEPT ![t] = "fetch"]
            /\ status_dict' = status_dict
    /\ UNCHANGED <<name_to_id, heartbeat_data, stop_event, _thread, services,
                   pin_mode, stop, gpio_mode, pin_setup, pins, gpio_cleaned,
                   exc, callers, cpc, ug_i, lastLifecycle, everStopped, pinLog, q,
                   lastRefresh, lastApply,
                   heartbeat_type, fsp, stopSlept>>

\* A plausible slip: the polling cycle fetches the registry as well.
ThreadFetch_refresh(t, data) ==
    /\ tpc[t] = "fetch"
    /\ heartbeat_data' = data
    /\ heartbeat_type' = "dict"
    /\ \E k \in 1..NumRegistries :
          name_to_id' = ParseRegistry(RegistryResponse(k)).mapping
    /\ tpc' = [tpc EXCEPT ![t] = "evaluate"]
    /\ UNCHANGED <<stop_event, _thread, services, pin_mode, stop, gpio_mode,
                   pin_setup, pins, gpio_cleaned, status_dict, exc, callers, cpc,
                   ug_i, lastLifecycle, lastRefresh, lastApply, everStopped,
                   pinLog, q,
                   fsp, stopSlept>>

\* check_all, line 180: fetch_heartbeat stores the response
ThreadFetch(t, data) ==
    /\ tpc[t] = "fetch"
    /\ heartbeat_data' = data
    /\ heartbeat_type' = "dict"
    /\ tpc' = [tpc EXCEPT ![t] = "evaluate"]
    /\ UNCHANGED <<name_to_id, stop_event, _thread, services, pin_mode, stop,
                   gpio_mode, pin_setup, pins, gpio_cleaned, status_dict, exc,
                   callers, cpc, ug_i, lastLifecycle, everStopped, pinLog, q,
                   lastRefresh, lastApply,
                   fsp, stopSlept>>

\* check_all, line 180: the backend never responds.  requests.get is called
\* without a timeout (line 169), so the call does not return
ThreadFetchHang(t) ==
    /\ tpc[t] = "fetch"
    /\ tpc' = [tpc EXCEPT ![t] = "hung"]
    /\ UNCHANGED <<name_to_id, heartbeat_data, stop_event, _thread, services,
                   pin_mode, stop, gpio_mode, pin_setup, pins, gpio_cleaned,
                   status_dict, exc, callers, cpc, ug_i, lastLifecycle,
                   everStopped, pinLog, q, lastRefresh, lastApply,
                   heartbeat_type, fsp, stopSlept>>

\* check_all, line 180: requests.get or raise_for_status raises
ThreadFetchFail(t) ==
    /\ tpc[t] = "fetch"
    /\ exc' = [exc EXCEPT ![t] = "RequestException"]
    /\ tpc' = [tpc EXCEPT ![t] = "except"]
    /\ UNCHANGED <<name_to_id, heartbeat_data, stop_event, _thread, services,
                   pin_mode, stop, gpio_mode, pin_setup, pins, gpio_cleaned,
                   status_dict, callers, cpc, ug_i, lastLifecycle, everStopped,
                   pinLog, q,
                   lastRefresh, lastApply,
                   heartbeat_type, fsp, stopSlept>>

\* A JSON array in place of the heartbeat object
ListPayload == <<"unavailable">>

\* check_all, line 180: the response body is a JSON array; fetch_heartbeat
\* (line 171) stores whatever response.json() returns
ThreadFetchList(t) ==
    /\ tpc[t] = "fetch"
    /\ heartbeat_data' = ListPayload
    /\ heartbeat_type' = "list"
    /\ tpc' = [tpc EXCEPT ![t] = "evaluate"]
    /\ UNCHANGED <<name_to_id, stop_event, _thread, services, pin_mode, stop,
                   gpio_mode, pin_setup, pins, gpio_cleaned, status_dict, exc,
                   callers, cpc, ug_i, lastLifecycle, everStopped, pinLog, q,
                   lastRefresh, lastApply, fsp, stopSlept>>

\* is_up, line 175: self.heartbeat_data.get raises AttributeError on a list;
\* check_all calls is_up once per registry entry
CheckAllRaises == heartbeat_type # "dict" /\ DOMAIN name_to_id # {}

\* A plausible slip: the loop has no except clause, so an error of the
\* evaluation ends the thread.
ThreadEvaluate_uncaught(t) ==
    /\ tpc[t] = "evaluate"
    /\ IF CheckAllRaises
       THEN /\ tpc' = [tpc EXCEPT ![t] = "dead"]
            /\ status_dict' = [status_dict EXCEPT ![t] = EmptyDict]
       ELSE /\ status_dict' = [status_dict EXCEPT ![t] =
                   [name \in DOMAIN name_to_id |->
                       is_up(heartbeat_data, name_to_id[name])]]
            /\ tpc' = [tpc EXCEPT ![t] = "sleep"]
    /\ UNCHANGED <<name_to_id, heartbeat_data, stop_event, _thread, services,
                   pin_mode, stop, gpio_mode, pin_setup, pins, gpio_cleaned, exc,
                   callers, cpc, ug_i, lastLifecycle, everStopped, pinLog, q,
                   lastRefresh, lastApply, heartbeat_type, fsp, stopSlept>>

\* check_all, line 181, and the prints of lines 197 to 199; an exception of
\* the try body reaches the except clause of line 200
ThreadEvaluate(t) ==
    /\ tpc[t] = "evaluate"
    /\ IF CheckAllRaises
       THEN /\ exc' = [exc EXCEPT ![t] = "AttributeError"]
            /\ tpc' = [tpc EXCEPT ![t] = "except"]
            /\ status_dict' = status_dict
       ELSE /\ status_dict' = [status_dict EXCEPT ![t] =
                   [name \in DOMAIN name_to_id |->
                       is_up(heartbeat_data, name_to_id[name])]]
            /\ tpc' = [tpc EXCEPT ![t] = "sleep"]
            /\ exc' = exc
    /\ UNCHANGED <<name_to_id, heartbeat_data, stop_event, _thread, services,
                   pin_mode, stop, gpio_mode, pin_setup, pins, gpio_cleaned,
                   callers, cpc, ug_i, lastLifecycle, everStopped, pinLog, q,
                   lastRefresh, lastApply,
                   heartbeat_type, fsp, stopSlept>>

\* lines 200 to 201: the except clause
ThreadExcept(t) ==
    /\ tpc[t] = "except"
    /\ exc' = [exc EXCEPT ![t] = "none"]
    /\ tpc' = [tpc EXCEPT ![t] = "sleep"]
    /\ UNCHANGED <<name_to_id, heartbeat_data, stop_event, _thread, services,
                   pin_mode, stop, gpio_mode, pin_setup, pins, gpio_cleaned,
                   status_dict, callers, cpc, ug_i, lastLifecycle, everStopped,
                   pinLog, q,
                   lastRefresh, lastApply,
                   heartbeat_type, fsp, stopSlept>>

\* line 202: a slice of time.sleep(interval) elapses.  time.sleep takes no
\* notice of self._stop_event; the slices that elapse while the event is set
\* are counted.
ThreadSleepSlice(t) ==
    /\ tpc[t] = "sleep"
    /\ stop_event
    /\ stopSlept[t] < SleepSlices
    /\ stopSlept' = [stopSlept EXCEPT ![t] = @ + 1]
    /\ UNCHANGED <<name_to_id, heartbeat_data, stop_event, _thread, services,
                   pin_mode, stop, gpio_mode, pin_setup, pins, gpio_cleaned,
                   tpc, status_dict, exc, callers, cpc, ug_i, lastLifecycle,
                   everStopped, pinLog, q, lastRefresh, lastApply,
                   heartbeat_type, fsp>>

\* line 202: time.sleep(interval) returns
ThreadWake(t) ==
    /\ tpc[t] = "sleep"
    /\ tpc' = [tpc EXCEPT ![t] = "test"]
    /\ stopSlept' = [stopSlept EXCEPT ![t] = 0]
    /\ UNCHANGED <<name_to_id, heartbeat_data, stop_event, _thread, services,
                   pin_mode, stop, gpio_mode, pin_setup, pins, gpio_cleaned,
                   status_dict, exc, callers, cpc, ug_i, lastLifecycle, everStopped,
                   pinLog, q,
                   lastRefresh, lastApply,
                   heartbeat_type, fsp>>

(***************************************************************************)
(* The specifications.  Spec: one calling thread drives the lifecycle      *)
(* (start, stop, registry refresh) and the script's shutdown, beside the   *)
(* background threads.  SpecApply: one calling thread starts the polling   *)
(* and calls update_gpio beside it.                                        *)
(***************************************************************************)
Next ==
    \/ \E c \in callers, k \in 1..NumRegistries : Construct(c, RegistryResponse(k))
    \/ \E c \in callers : ConstructFail(c)
    \/ \E c \in callers, k \in 1..NumRegistries : FetchStatusPage(c, RegistryResponse(k))
    \/ \E c \in callers : FetchStatusPageFail(c)
    \/ \E c \in callers : StartCheck(c)
    \/ \E c \in callers : StartClear(c)
    \/ \E c \in callers : StartCreate(c)
    \/ \E c \in callers : StartRun(c)
    \/ \E c \in callers : StopSet(c)
    \/ \E c \in callers : StopCheck(c)
    \/ \E c \in callers : StopJoin(c)
    \/ \E c \in callers : StopReset(c)
    \/ \E c \in callers : RunEnter(c)
    \/ \E c \in callers : RunReturn(c)
    \/ \E c \in callers : Cleanup(c)
    \/ \E c \in callers : Exit(c)
    \/ Signal
    \/ \E t \in Tids : ThreadTest(t)
    \/ \E t \in Tids, k \in 1..NumHeartbeats : ThreadFetch(t, HeartbeatResponse(k))
    \/ \E t \in Tids : ThreadFetchFail(t)
    \/ \E t \in Tids : ThreadEvaluate(t)
    \/ \E t \in Tids : ThreadExcept(t)
    \/ \E t \in Tids : ThreadWake(t)

Spec == Init /\ [][Next]_vars

NextApply ==
    \/ \E c \in callers, k \in 1..NumRegistries : Construct(c, RegistryResponse(k))
    \/ \E c \in callers, k \in 1..NumRegistries : FetchStatusPage(c, RegistryResponse(k))
    \/ \E c \in callers : StartCheck(c)
    \/ \E c \in callers : StartClear(c)
    \/ \E c \in callers : StartCreate(c)
    \/ \E c \in callers : StartRun(c)
    \/ \E c \in callers : UpdateGpioBegin(c)
    \/ \E c \in callers : UpdateGpioStep(c)
    \/ \E c \in callers : UpdateGpioReturn(c)
    \/ \E t \in Tids : ThreadTest(t)
    \/ \E t \in Tids, k \in 1..NumHeartbeats : ThreadFetch(t, HeartbeatResponse(k))
    \/ \E t \in Tids : ThreadFetchFail(t)
    \/ \E t \in Tids : ThreadEvaluate(t)
    \/ \E t \in Tids : ThreadExcept(t)
    \/ \E t \in Tids : ThreadWake(t)

SpecApply == Init /\ [][NextApply]_vars

\* SpecParseJson: the StatusMonitor of src/parse_json.py, which differs from
\* the one of src/beacon.py in update_gpio only.
NextParseJson ==
    \/ \E c \in callers, k \in 1..NumRegistries : Construct(c, RegistryResponse(k))
    \/ \E c \in callers, k \in 1..NumRegistries : FetchStatusPage(c, RegistryResponse(k))
    \/ \E c \in callers : StartCheck(c)
    \/ \E c \in callers : StartClear(c)
    \/ \E c \in callers : StartCreate(c)
    \/ \E c \in callers : StartRun(c)
    \/ \E c \in callers : UpdateGpioBegin(c)
    \/ \E c \in callers : UpdateGpioStepParseJson(c)
    \/ \E c \in callers : UpdateGpioReturn(c)
    \/ \E t \in Tids : ThreadTest(t)
    \/ \E t \in Tids, k \in 1..NumHeartbeats : ThreadFetch(t, HeartbeatResponse(k))
    \/ \E t \in Tids : ThreadFetchFail(t)
    \/ \E t \in Tids : ThreadEvaluate(t)
    \/ \E t \in Tids : ThreadExcept(t)
    \/ \E t \in Tids : ThreadWake(t)

SpecParseJson == Init /\ [][NextParseJson]_vars

\* SpecRefresh: fetch_status_page in the steps of its code, beside the
\* polling threads that read the registry.
NextRefresh ==
    \/ \E c \in callers, k \in 1..NumRegistries : Construct(c, RegistryResponse(k))
    \/ \E c \in callers, k \in 1..NumRegistries : FspBegin(c, RegistryResponse(k))
    \/ \E c \in callers : FspGroup(c)
    \/ \E c \in callers : FspAssign(c)
    \/ \E c \in callers : FetchStatusPageFail(c)
    \/ \E c \in callers : StartCheck(c)
    \/ \E c \in callers : StartClear(c)
    \/ \E c \in callers : StartCreate(c)
    \/ \E c \in callers : StartRun(c)
    \/ \E t \in Tids : ThreadTest(t)
    \/ \E t \in Tids, k \in 1..NumHeartbeats : ThreadFetch(t, HeartbeatResponse(k))
    \/ \E t \in Tids : ThreadFetchFail(t)
    \/ \E t \in Tids : ThreadEvaluate(t)
    \/ \E t \in Tids : ThreadExcept(t)
    \/ \E t \in Tids : ThreadWake(t)

SpecRefresh == Init /\ [][NextRefresh]_vars

\* SpecLastWins: update_gpio and fetch_status_page in the steps of its
\* code, beside the polling threads.
NextLastWins ==
    \/ \E c \in callers, k \in 1..NumRegistries : Construct(c, RegistryResponse(k))
    \/ \E c \in callers, k \in 1..NumRegistries : FspBegin(c, RegistryResponse(k))
    \/ \E c \in callers : FspGroup(c)
    \/ \E c \in callers : FspAssign(c)
    \/ \E c \in callers : StartCheck(c)
    \/ \E c \in callers : StartClear(c)
    \/ \E c \in callers : StartCreate(c)
    \/ \E c \in callers : StartRun(c)
    \/ \E c \in callers : UpdateGpioBegin(c)
    \/ \E c \in callers : UpdateGpioStep(c)
    \/ \E c \in callers : UpdateGpioReturn(c)
    \/ \E t \in Tids : ThreadTest(t)
    \/ \E t \in Tids, k \in 1..NumHeartbeats : ThreadFetch(t, HeartbeatResponse(k))
    \/ \E t \in Tids : ThreadFetchFail(t)
    \/ \E t \in Tids : ThreadEvaluate(t)
    \/ \E t \in Tids : ThreadExcept(t)
    \/ \E t \in Tids : ThreadWake(t)

SpecLastWins == Init /\ [][NextLastWins]_vars

\* SpecHang: the lifecycle beside the background threads, with a backend
\* that may never respond to a heartbeat request.
NextHang ==
    \/ \E c \in callers, k \in 1..NumRegistries : Construct(c, RegistryResponse(k))
    \/ \E c \in callers : StartCheck(c)
    \/ \E c \in callers : StartClear(c)
    \/ \E c \in callers : StartCreate(c)
    \/ \E c \in callers : StartRun(c)
    \/ \E c \in callers : StopSet(c)
    \/ \E c \in callers : StopCheck(c)
    \/ \E c \in callers : StopJoin(c)
    \/ \E c \in callers : StopReset(c)
    \/ \E t \in Tids : ThreadTest(t)
    \/ \E t \in Tids, k \in 1..NumHeartbeats : ThreadFetch(t, HeartbeatResponse(k))
    \/ \E t \in Tids : ThreadFetchHang(t)
    \/ \E t \in Tids : ThreadFetchFail(t)
    \/ \E t \in Tids : ThreadEvaluate(t)
    \/ \E t \in Tids : ThreadExcept(t)
    \/ \E t \in Tids : ThreadWake(t)

SpecHang == Init /\ [][NextHang]_vars

\* SpecOutputFail: SpecApply with a GPIO backend whose output call may raise.
NextOutputFail ==
    \/ NextApply
    \/ \E c \in callers : UpdateGpioOutputFail(c)

SpecOutputFail == Init /\ [][NextOutputFail]_vars

\* SpecConcurrent: two calling threads share a StatusMonitor that was
\* constructed with configuration 1 and registry response 1 (lines 133 to
\* 151), and call start_periodic_check and stop_periodic_check on it.
InitConcurrent ==
    /\ callers = {1, 2}
    /\ cpc = [c \in callers |-> "idle"]
    /\ name_to_id = ParseRegistry(RegistryResponse(1)).mapping
    /\ heartbeat_data = EmptyDict
    /\ heartbeat_type = "dict"
    /\ stop_event = FALSE
    /\ _thread = None
    /\ services = Config(1).services
    /\ pin_mode = Config(1).pin_mode
    /\ stop = FALSE
    /\ gpio_mode = "BCM"
    /\ pin_setup = {Config(1).services[i]["pin"] : i \in 1..Len(Config(1).services)}
    /\ pins = [p \in AllPins |-> "UNSET"]
    /\ gpio_cleaned = FALSE
    /\ tpc = [t \in Tids |-> "unborn"]
    /\ status_dict = [t \in Tids |-> EmptyDict]
    /\ exc = [t \in Tids |-> "none"]
    /\ ug_i = [c \in callers |-> 0]
    /\ fsp = [c \in callers |-> NoLocals]
    /\ stopSlept = [t \in Tids |-> 0]
    /\ lastLifecycle = [c \in callers |-> "none"]
    /\ lastRefresh = [c \in callers |-> "none"]
    /\ lastApply = [c \in callers |-> "none"]
    /\ everStopped = FALSE
    /\ pinLog = << >>
    /\ q = [called |-> FALSE, id |-> None, result |-> FALSE]

NextConcurrent ==
    \/ \E c \in callers : StartCheck(c)
    \/ \E c \in callers : StartClear(c)
    \/ \E c \in callers : StartCreate(c)
    \/ \E c \in callers : StartRun(c)
    \/ \E c \in callers : StopSet(c)
    \/ \E c \in callers : StopCheck(c)
    \/ \E c \in callers : StopJoin(c)
    \/ \E c \in callers : StopReset(c)
    \/ \E t \in Tids : ThreadTest(t)
    \/ \E t \in Tids, k \in 1..NumHeartbeats : ThreadFetch(t, HeartbeatResponse(k))
    \/ \E t \in Tids : ThreadFetchFail(t)
    \/ \E t \in Tids : ThreadEvaluate(t)
    \/ \E t \in Tids : ThreadExcept(t)
    \/ \E t \in Tids : ThreadWake(t)

SpecConcurrent == InitConcurrent /\ [][NextConcurrent]_vars

\* SpecSleep: the lifecycle beside the background threads, with the time
\* that elapses inside time.sleep.
NextSleep ==
    \/ \E c \in callers, k \in 1..NumRegistries : Construct(c, RegistryResponse(k))
    \/ \E c \in callers : StartCheck(c)
    \/ \E c \in callers : StartClear(c)
    \/ \E c \in callers : StartCreate(c)
    \/ \E c \in callers : StartRun(c)
    \/ \E c \in callers : StopSet(c)
    \/ \E c \in callers : StopCheck(c)
    \/ \E c \in callers : StopJoin(c)
    \/ \E c \in callers : StopReset(c)
    \/ \E t \in Tids : ThreadTest(t)
    \/ \E t \in Tids, k \in 1..NumHeartbeats : ThreadFetch(t, HeartbeatResponse(k))
    \/ \E t \in Tids : ThreadFetchFail(t)
    \/ \E t \in Tids : ThreadEvaluate(t)
    \/ \E t \in Tids : ThreadExcept(t)
    \/ \E t \in Tids : ThreadSleepSlice(t)
    \/ \E t \in Tids : ThreadWake(t)

SpecSleep == Init /\ [][NextSleep]_vars

\* SpecErrors: the lifecycle beside the background threads, with heartbeat
\* responses of the wrong shape.
NextErrors ==
    \/ \E c \in callers, k \in 1..NumRegistries : Construct(c, RegistryResponse(k))
    \/ \E c \in callers : StartCheck(c)
    \/ \E c \in callers : StartClear(c)
    \/ \E c \in callers : StartCreate(c)
    \/ \E c \in callers : StartRun(c)
    \/ \E c \in callers : StopSet(c)
    \/ \E c \in callers : StopCheck(c)
    \/ \E c \in callers : StopJoin(c)
    \/ \E c \in callers : StopReset(c)
    \/ \E t \in Tids : ThreadTest(t)
    \/ \E t \in Tids, k \in 1..NumHeartbeats : ThreadFetch(t, HeartbeatResponse(k))
    \/ \E t \in Tids : ThreadFetchList(t)
    \/ \E t \in Tids : ThreadFetchFail(t)
    \/ \E t \in Tids : ThreadEvaluate(t)
    \/ \E t \in Tids : ThreadExcept(t)
    \/ \E t \in Tids : ThreadWake(t)

SpecErrors == Init /\ [][NextErrors]_vars

(***************************************************************************)
(* The evaluator harness: is_up on every snapshot and id within the bounds.*)
(***************************************************************************)
HbEntries == {HbNoStatus} \cup {[status |-> s, time |-> 1] : s \in 0..3}

HbSequences == UNION {[1..n -> HbEntries] : n \in 0..MaxEntries}

HbKeys == {"2", "12"}

HbSnapshots ==
    {EmptyDict, [uptimeList |-> 0]}
    \cup {[heartbeatList |-> hl] : hl \in UNION {[K -> HbSequences] : K \in SUBSET HbKeys}}

QueryIds == {None, 1, 2, 12}

InitIsUp ==
    /\ callers = {1}
    /\ cpc = [c \in callers |-> "idle"]
    /\ \E hb \in HbSnapshots : InitFields(1, hb)

\* a call of is_up(monitor_id) on the stored snapshot
IsUpCall(monitor_id) ==
    /\ q' = [called |-> TRUE, id |-> monitor_id,
             result |-> is_up(heartbeat_data, monitor_id)]
    /\ UNCHANGED <<name_to_id, heartbeat_data, stop_event, _thread, services,
                   pin_mode, stop, gpio_mode, pin_setup, pins, gpio_cleaned, tpc,
                   status_dict, exc, callers, cpc, ug_i, lastLifecycle, everStopped,
                   pinLog,
                   lastRefresh, lastApply,
                   heartbeat_type, fsp, stopSlept>>

NextIsUp == \E monitor_id \in QueryIds : IsUpCall(monitor_id)

SpecIsUp == InitIsUp /\ [][NextIsUp]_vars

(***************************************************************************)
(* Properties.                                                             *)
(***************************************************************************)
\* the binding names a monitor: an explicit id, or a name the registry holds
Resolvable(service, mapping) ==
    ~NameKeyError(service) /\ ServiceId(service, mapping) # None

\* no later enabled binding of the list writes the same pin
LastForPin(i) ==
    \A j \in (i + 1)..Len(services) :
        Enabled(services[j]) => services[j]["pin"] # services[i]["pin"]

\* every enabled, resolvable binding's pin shows the verdict of the stored snapshot
PinsReflect ==
    \A i \in 1..Len(services) :
        (Enabled(services[i]) /\ Resolvable(services[i], name_to_id) /\ LastForPin(i))
            => pins[services[i]["pin"]]
                 = Level(heartbeat_data, ServiceId(services[i], name_to_id))

\* C1: whenever a background thread completes a polling cycle (the fetch
\* succeeded and the cycle goes on to its sleep), the pin of every enabled,
\* resolvable binding is HIGH when its monitor is up in the stored snapshot
\* and LOW when it is down.
C1_PinsFollowCycle ==
    [][\A t \in Tids :
          (tpc[t] = "evaluate" /\ tpc'[t] = "sleep") => PinsReflect']_vars

\* the entries stored for monitor_id end with an entry whose status is 1
LastStatusIsOne(hb, monitor_id) ==
    /\ "heartbeatList" \in DOMAIN hb
    /\ str(monitor_id) \in DOMAIN hb["heartbeatList"]
    /\ LET entries == hb["heartbeatList"][str(monitor_id)]
       IN  \E n \in 1..Len(entries) :
              /\ n = Len(entries)
              /\ "status" \in DOMAIN entries[n]
              /\ entries[n]["status"] = 1

\* C2: is_up(id) is true exactly when the entries stored for id are not
\* empty and the status of the last one is 1; an absent id, an empty
\* sequence or a last entry with another or no status gives false,
\* whatever the earlier entries are.
C2_IsUpContract ==
    q.called => (q.result <=> LastStatusIsOne(heartbeat_data, q.id))

\* is_up answered true for monitor 12 whose earlier entry is not up
C2_Witness ==
    /\ q.called /\ q.result /\ q.id = 12
    /\ "heartbeatList" \in DOMAIN heartbeat_data
    /\ "12" \in DOMAIN heartbeat_data["heartbeatList"]
    /\ Len(heartbeat_data["heartbeatList"]["12"]) = 2
    /\ DictGet(heartbeat_data["heartbeatList"]["12"][1], "status", None) = 0

\* C3: whatever start and stop calls one caller makes one after another,
\* at most one background polling thread is alive.
C3_AtMostOneThread == Cardinality(AliveThreads) <= 1

\* a start call returned at once because the polling thread is alive
C3_Witness ==
    \E c \in callers :
        lastLifecycle[c] = "start_noop" /\ Cardinality(AliveThreads) = 1

\* a stop_periodic_check call has returned after its join, and no start since
AfterStop == \E c \in callers : lastLifecycle[c] = "stop"

\* C4: once stop_periodic_check has returned after its join, and until the
\* next start has started a thread, no background polling thread is alive,
\* and no step stores a heartbeat response or writes a pin.
C4_StopJoins ==
    /\ [](AfterStop => AliveThreads = {})
    /\ [][AfterStop => (heartbeat_data' = heartbeat_data /\ pins' = pins)]_vars

\* stop returned after joining a thread that had polled
C4_Witness ==
    /\ \E c \in callers : lastLifecycle[c] = "stop" /\ cpc[c] = "idle"
    /\ \E t \in Tids : tpc[t] = "dead"
    /\ heartbeat_data # EmptyDict

\* C5: a stop call that finds no thread never reaches the join, and after
\* such a stop a later start leaves a live polling thread with the stop
\* event cleared, for as long as no further stop is called.
C5_EarlyStopHarmless ==
    \A c \in callers :
        /\ cpc[c] = "stop_join" => _thread # None
        /\ (everStopped /\ lastLifecycle[c] = "start"
              /\ cpc[c] \in {"idle", "run", "cleanup", "exit"})
             => (~stop_event /\ AlreadyRunning)

\* the first thread ever started, after a stop that found none, has polled
C5_Witness ==
    /\ everStopped
    /\ tpc[1] = "sleep"
    /\ DOMAIN status_dict[1] # {}
    /\ heartbeat_data # EmptyDict

\* after a joined stop, a start call has returned and no stop is under way
Restarted(c) ==
    /\ \E t \in Tids : tpc[t] = "dead"
    /\ lastLifecycle[c] = "start"
    /\ cpc[c] \in {"idle", "run", "cleanup", "exit"}

\* C6: a start after a stop leaves a live polling thread with the stop event
\* cleared, and name_to_id changes only in the constructor's or an explicit
\* fetch_status_page call: no start, stop or polling step changes it.
C6_RestartKeepsRegistry ==
    /\ [](\A c \in callers : Restarted(c) => (~stop_event /\ AlreadyRunning))
    /\ [][name_to_id' # name_to_id =>
            \E c \in callers, k \in 1..NumRegistries :
                \/ Construct(c, RegistryResponse(k))
                \/ FetchStatusPage(c, RegistryResponse(k))]_vars

\* the second thread polls with the registry of the construction
C6_Witness ==
    /\ tpc[1] = "dead"
    /\ tpc[2] = "sleep"
    /\ DOMAIN status_dict[2] # {}
    /\ \E c \in callers : lastRefresh[c] = "none"

\* C7: when the heartbeat fetch of a cycle fails, the stored snapshot and
\* the pins stay as they are and the cycle goes on with the stale snapshot
\* to the evaluation of the verdicts.
C7_StaleCycleContinues ==
    [][\A t \in Tids :
          (tpc[t] = "fetch" /\ exc'[t] # "none")
            => /\ heartbeat_data' = heartbeat_data
               /\ pins' = pins
               /\ tpc'[t] = "evaluate"]_vars

\* C8: no GPIO.output call of an update_gpio pass is made for a binding
\* whose monitor is not resolved: its pin is left untouched.
C8_UnresolvedSkipped ==
    \A n \in 1..Len(pinLog) : pinLog[n].id # None

\* every enabled, resolvable binding has had its pin written in the pass
AllResolvableDriven ==
    \A i \in 1..Len(services) :
        (Enabled(services[i]) /\ Resolvable(services[i], name_to_id))
            => \E n \in 1..Len(pinLog) :
                  /\ pinLog[n].i = i
                  /\ pinLog[n].pin = services[i]["pin"]

\* C9: when an update_gpio pass ends, every enabled, resolvable binding of
\* the list has had its pin written, whatever unresolvable bindings stand
\* before or after it.
C9_OthersStillApplied ==
    [][\A c \in callers :
          (lastApply[c] = "running" /\ lastApply'[c] # "running")
            => AllResolvableDriven']_vars

\* C10: GPIO.cleanup is called only after stop_periodic_check has joined the
\* polling thread: once it has been called, no polling thread is alive.
C10_OrderlyShutdown ==
    gpio_cleaned => (AliveThreads = {} /\ _thread = None)

\* C11: the interval sleep is interruptible by the stop signal: once the
\* stop event is set, a sleeping polling thread wakes within one slice of
\* time instead of sleeping the remaining slices of the interval (and so
\* stop_periodic_check's join is not held for the rest of the sleep).
C11_SleepInterruptible ==
    \A t \in Tids : stopSlept[t] <= 1

\* C12: an error of a polling cycle (a failed fetch, a payload of the wrong
\* shape that makes the evaluation raise) is contained in that cycle: the
\* error reaches the except clause, the thread stays alive and goes on to
\* the sleep and from the sleep to the next loop test; a polling thread
\* ends only at the loop test, with the stop event set.
C12_ErrorsContained ==
    [][\A t \in Tids :
          /\ (exc[t] = "none" /\ exc'[t] # "none") => tpc'[t] = "except"
          /\ (tpc[t] = "except" /\ tpc'[t] # "except")
                => (tpc'[t] = "sleep" /\ exc'[t] = "none")
          /\ (tpc[t] = "sleep" /\ tpc'[t] # "sleep") => tpc'[t] = "test"
          /\ (is_alive(t) /\ ~is_alive(t)')
                => (tpc[t] = "test" /\ stop_event)]_vars

\* A thread is in the fetch of a new cycle after the cycle that stored the
\* list payload, whose evaluation raised.
C12_Witness ==
    \E t \in Tids :
        /\ tpc[t] = "fetch"
        /\ heartbeat_type = "list"
        /\ DOMAIN name_to_id # {}
        /\ ~stop_event

\* C13: when the registry fetch of the constructor fails, the constructor
\* raises and leaves no GPIO mode set, no pin configured, no Thread object
\* created and no registry stored.
C13_ConstructionFailureFatal ==
    \A c \in callers :
        cpc[c] = "raised"
          => /\ gpio_mode = "unset"
             /\ pin_setup = {}
             /\ pins = [p \in AllPins |-> "UNSET"]
             /\ Created = {}
             /\ _thread = None
             /\ name_to_id = EmptyDict

\* The constructor has raised.
C13_Witness ==
    \E c \in callers : cpc[c] = "raised" /\ lastLifecycle[c] = "none"

\* C14: for every binding that carries an explicit id (0 included), the
\* level written to its pin is the verdict of that id, whatever the registry
\* holds for its name.
C14_ExplicitIdWins ==
    [][Len(pinLog') > Len(pinLog)
         => LET e == pinLog'[Len(pinLog')]
                service == services[e.i]
            IN  "id" \in DOMAIN service
                  => e.level = Level(heartbeat_data, service["id"])]_vars

\* C15: when an update_gpio pass has returned, every binding without an
\* 'enabled' field had its pin driven in the pass, and no binding with
\* enabled = false had.
DrivenInPass(i) == \E j \in 1..Len(pinLog) : pinLog[j].i = i

C15_EnabledDefaultsTrue ==
    \A c \in callers :
        lastApply[c] = "returned"
          => \A i \in 1..Len(services) :
                /\ "enabled" \notin DOMAIN services[i] => DrivenInPass(i)
                /\ ("enabled" \in DOMAIN services[i] /\ ~services[i]["enabled"])
                      => ~DrivenInPass(i)

\* C16: the registry mapping is swapped atomically.  self.name_to_id is at
\* every moment the empty mapping of the constructor or the complete mapping
\* of one registry response, so is the registry a polling thread evaluated;
\* and a fetch_status_page call that raises while it parses leaves the
\* previous mapping unchanged.
CompleteMappings ==
    {EmptyDict} \cup
    {ParseRegistry(RegistryResponse(k)).mapping :
        k \in {j \in 1..NumRegistries : ParseRegistry(RegistryResponse(j)).ok}}

C16_RegistrySwappedAtomically ==
    [][/\ name_to_id' \in CompleteMappings
       /\ \A t \in Tids :
             DOMAIN status_dict'[t] \in {DOMAIN m : m \in CompleteMappings}
       /\ \A c \in callers :
             (cpc[c] = "fsp_parse" /\ fsp'[c].groups # << >>)
               => name_to_id' = name_to_id
       /\ \A c \in callers :
             (cpc[c] = "fsp_parse" /\ lastRefresh'[c] = "raised")
               => name_to_id' = name_to_id]_vars

\* A refresh has parsed one group into its local mapping and is about to
\* raise on a group without name, while a polling thread is about to
\* evaluate the registry.
C16_Witness ==
    \E c \in callers, t \in Tids :
        /\ cpc[c] = "fsp_parse"
        /\ fsp[c].mapping # EmptyDict
        /\ fsp[c].groups # << >>
        /\ "name" \notin DOMAIN Head(fsp[c].groups)
        /\ name_to_id \notin {EmptyDict, fsp[c].mapping}
        /\ tpc[t] = "evaluate"

\* The registry entries in traversal order: each group, then its monitors,
\* the groups in list order.
RECURSIVE Traversal(_)
Traversal(groups) ==
    IF groups = << >> THEN << >>
    ELSE LET group == Head(groups)
         IN  <<[name |-> group["name"], id |-> group["id"]]>>
               \o DictGet(group, "monitorList", << >>)
               \o Traversal(Tail(groups))

\* the mapping that keeps, for every name, the id of its last entry
LastEntryMapping(entries) ==
    [name \in {entries[i]["name"] : i \in 1..Len(entries)} |->
        LET last == CHOOSE i \in 1..Len(entries) :
                       /\ entries[i]["name"] = name
                       /\ \A j \in (i + 1)..Len(entries) : entries[j]["name"] # name
        IN  entries[last]["id"]]

\* C17: after an update_gpio pass has returned, a pin that several enabled
\* bindings target shows the level written for the one that comes last in
\* the binding list; and a fetch_status_page call that completes stores, for
\* every name of the payload, the id of the name's last entry in traversal
\* order.
C17_LastWins ==
    /\ [](\A c \in callers :
             lastApply[c] = "returned"
               => \A j \in 1..Len(pinLog) :
                     LastForPin(pinLog[j].i)
                       => pins[pinLog[j].pin] = pinLog[j].level)
    /\ [][\A c \in callers :
             (cpc[c] = "fsp_parse" /\ cpc'[c] = "idle" /\ lastRefresh'[c] = "ok")
               => name_to_id' = LastEntryMapping(
                     Traversal(DictGet(fsp[c].data, "publicGroupList", << >>)))]_vars

\* A pass has returned in which two bindings wrote different levels to one
\* pin, and a refresh has stored a payload in which a name occurs as a group
\* and as a monitor.
C17_Witness ==
    \E c \in callers :
        /\ lastApply[c] = "returned"
        /\ \E i, j \in 1..Len(pinLog) :
              /\ i < j
              /\ pinLog[i].pin = pinLog[j].pin
              /\ pinLog[i].level # pinLog[j].level
        /\ lastRefresh[c] = "ok"
        /\ name_to_id = ParseRegistry(RegistryResponse(2)).mapping

\* the steps of polling thread t
ThreadSteps(t) ==
    \/ ThreadTest(t)
    \/ \E k \in 1..NumHeartbeats : ThreadFetch(t, HeartbeatResponse(k))
    \/ ThreadFetchHang(t)
    \/ ThreadFetchFail(t)
    \/ ThreadEvaluate(t)
    \/ ThreadExcept(t)
    \/ ThreadWake(t)

\* C18: a hung backend cannot wedge the polling loop: a thread whose
\* heartbeat request gets no response has a next step (the timeout that ends
\* the fetch as an error), so the loop goes on and a stop that joins the
\* thread can return.
C18_HungFetchEnds ==
    \A t \in Tids : tpc[t] = "hung" => ENABLED ThreadSteps(t)

\* the enabled, resolvable bindings the latest pass has not driven
NotDriven ==
    {i \in 1..Len(services) :
        /\ Enabled(services[i])
        /\ Resolvable(services[i], name_to_id)
        /\ ~DrivenInPass(i)}

\* C19: a GPIO.output call that raises for one binding does not abort the
\* pass: when the call in which it raised is over, every other enabled,
\* resolvable binding, before and after the failing one, has been driven.
C19_OutputFailureContained ==
    [][\A c \in callers :
          (lastApply[c] = "running" /\ lastApply'[c] = "output_raised")
            => Cardinality(NotDriven') <= 1]_vars

\* C20: under every interleaving of start_periodic_check and
\* stop_periodic_check calls of two threads, at most one polling thread is
\* alive, and every alive polling thread is the one self._thread refers to.
C20_ConcurrentLifecycleSafe ==
    /\ Cardinality(AliveThreads) <= 1
    /\ \A t \in AliveThreads : _thread = t

====
